---- MODULE Spec2Model ----
(***************************************************************************)
(* Model of services/network_bands.py (Service-Area-Tools).                *)
(*                                                                         *)
(* Three functions are modelled, each under its own specification:         *)
(*   SpecBands : service_bands          (dissolve, sort, difference chain) *)
(*   SpecAreas : service_areas          (any dict and list of cutoffs)     *)
(*   SpecReach : service_areas          (any graph, one location)          *)
(*   SpecNodes : nearest_node_and_name  (name -> nearest node mapping)     *)
(*                                                                         *)
(* Geometry is modelled as finite sets of area cells: union, difference    *)
(* and intersection of polygons are the set operations on their cells.     *)
(***************************************************************************)
EXTENDS Integers, Sequences, FiniteSets

VARIABLES
    pc,                 \* position in the function being run
    outcome,            \* "running", "ok", or the name of the exception raised
    index,              \* loop variable `index` of the running function
    \* ---- service_bands
    geodataframe,       \* input table: sequence of rows [distance, geometry]
    has_column,         \* whether the input table has the dissolve_cat column
    gdf_dissolve,       \* one dissolved row per distinct distance
    gdf_dissolve_sorted,\* gdf_dissolve sorted by distance, descending
    differenced_geoms,  \* list of band geometries
    category_values,    \* list of band distances
    differenced_gdf,    \* returned table: sequence of rows [geometry, distance]
    \* ---- service_areas
    graph,              \* the network: for every arc, its bundle of parallel edges
    nearest_node_dict,  \* insertion-ordered dict: sequence of [name, nearest_node]
    search_distances,   \* list of cutoffs
    distance_pos,       \* how many distances the inner loop has done for this location
    data_for_gdf,       \* list of records [name, distance, geometry]
    subgraph_log,       \* the Dijkstra result (line 195) of every record appended
    gdf_alpha,          \* returned table
    \* ---- nearest_node_and_name
    locations,          \* table of start locations: sequence of rows (column ->
                        \* value), each with its index label under "index"
    location_name_arg,  \* the location_name the caller passed: a column name or None
    location_name,      \* the variable location_name, which line 135 may rebind
    anon_name,          \* whether fake names are asked for
    rows_done,          \* how many rows locations.iterrows() has yielded
    service_xy          \* the dict built: name -> [nearest_node]

bandsVars == <<geodataframe, has_column, gdf_dissolve, gdf_dissolve_sorted,
               differenced_geoms, category_values, differenced_gdf>>

areasVars == <<graph, nearest_node_dict, search_distances, distance_pos,
               data_for_gdf, subgraph_log, gdf_alpha>>

nodesVars == <<locations, location_name_arg, location_name, anon_name, rows_done,
               service_xy>>

vars == <<pc, outcome, index, bandsVars, areasVars, nodesVars>>

(***************************************************************************)
(* Bounds of the model.                                                    *)
(***************************************************************************)
MaxRows == 3        \* rows of the table given to service_bands
MaxDistance == 3    \* distance values of that table are 1..MaxDistance
MaxCost == 2        \* cutoffs (search distances) are 0..MaxCost
MaxBindings == 2    \* entries of the name -> node dict given to service_areas
MaxCutoffs == 2     \* length of the list of cutoffs given to service_areas
MaxLocations == 3   \* rows of the table given to nearest_node_and_name

Cells == {1, 2}     \* the area cells polygons are made of
Distances == 1..MaxDistance
Nodes == {1, 2, 3}  \* the node ids of the graph
Weights == {0, 1, 2}                         \* values of the weight attribute of an edge
Names == {"A", "B", "C"}
LocationNames == {"A", "B"}                  \* values of a name column
Cities == {"X", "Y"}                         \* values fake.city() returns
Points == {<<0, 0>>, <<2, 1>>, <<3, 3>>}     \* coordinates of start locations
IndexLabels == {0, 1, 2}                     \* index labels of a locations table
None == "None"                               \* Python's None

(***************************************************************************)
(* Generic helpers.                                                        *)
(***************************************************************************)
Range(s) == {s[i] : i \in 1..Len(s)}

SeqsUpTo(S, n) == UNION {[1..k -> S] : k \in 0..n}

SetMin(S) == CHOOSE x \in S : \A y \in S : x <= y

\* d[k] = val on a dict: d with the item added or overwritten.
DictSet(d, k, val) == [x \in DOMAIN d \cup {k} |-> IF x = k THEN val ELSE d[x]]

(***************************************************************************)
(* service_bands                                                           *)
(***************************************************************************)
BandRows == [distance : Distances, geometry : SUBSET Cells]

\* geodataframe[dissolve_cat].unique(): the distinct values, in order of
\* first appearance.
RECURSIVE Unique(_)
Unique(col) ==
    IF col = <<>> THEN <<>>
    ELSE LET n == Len(col)
             front == Unique(SubSeq(col, 1, n - 1))
         IN IF col[n] \in Range(front) THEN front ELSE Append(front, col[n])

Column(table) == [i \in 1..Len(table) |-> table[i].distance]

\* geodataframe[geodataframe[dissolve_cat] == distance].reset_index(drop=True)
RECURSIVE Filter(_, _)
Filter(table, distance) ==
    IF table = <<>> THEN <<>>
    ELSE LET n == Len(table)
             front == Filter(SubSeq(table, 1, n - 1), distance)
         IN IF table[n].distance = distance THEN Append(front, table[n]) ELSE front

\* The geometry of a dissolve without `by`: the union of all row geometries.
DissolveGeometry_first(rows) == rows[1].geometry

DissolveGeometry(rows) == UNION {rows[i].geometry : i \in 1..Len(rows)}

\* filtered_data.dissolve(aggfunc='first'): one row, the geometries merged,
\* every other column taken from the first row.
Dissolve(rows) ==
    [distance |-> rows[1].distance, geometry |-> DissolveGeometry(rows)]

\* pd.concat of the dissolved row of every distinct distance (lines 256-261).
DissolveAll(table) ==
    LET distinct == Unique(Column(table))
    IN [k \in 1..Len(distinct) |-> Dissolve(Filter(table, distinct[k]))]

\* The order sort_values(by=dissolve_cat, ascending=False) puts two rows in.
SortsBefore_ascending(a, b) == a.distance < b.distance

SortsBefore(a, b) == a.distance > b.distance

\* sort_values: the rows rearranged so that each sorts before the next.
RECURSIVE SortValues(_)
SortValues(table) ==
    IF table = <<>> THEN <<>>
    ELSE LET n == Len(table)
             i == CHOOSE k \in 1..n :
                     \A m \in 1..n : m # k =>
                         (SortsBefore(table[k], table[m])
                            \/ (~SortsBefore(table[m], table[k]) /\ k < m))
             rest == [m \in 1..(n - 1) |-> IF m < i THEN table[m] ELSE table[m + 1]]
         IN <<table[i]>> \o SortValues(rest)

\* shapely's a.difference(b)
Difference_noop(a, b) == a

Difference_swapped(a, b) == b \ a

Difference(a, b) == a \ b

\* The variables of service_areas while another function runs.
AreasIdle ==
    /\ graph = <<>>
    /\ nearest_node_dict = <<>>
    /\ search_distances = <<>>
    /\ distance_pos = 0
    /\ data_for_gdf = <<>>
    /\ subgraph_log = <<>>
    /\ gdf_alpha = <<>>

\* The variables of nearest_node_and_name while another function runs.
NodesIdle ==
    /\ locations = <<>>
    /\ location_name_arg = None
    /\ location_name = None
    /\ anon_name = FALSE
    /\ rows_done = 0
    /\ service_xy = <<>>

BandsInit ==
    /\ pc = "bands_start"
    /\ outcome = "running"
    /\ geodataframe \in SeqsUpTo(BandRows, MaxRows)
    /\ has_column \in (IF geodataframe = <<>> THEN BOOLEAN ELSE {TRUE})
    /\ gdf_dissolve = <<>>
    /\ gdf_dissolve_sorted = <<>>
    /\ index = 0
    /\ differenced_geoms = <<>>
    /\ category_values = <<>>
    /\ differenced_gdf = <<>>
    /\ AreasIdle
    /\ NodesIdle

\* Lines 255-261 on a table that has rows.
BandsDissolve ==
    /\ pc = "bands_start"
    /\ geodataframe # <<>>
    /\ gdf_dissolve' = DissolveAll(geodataframe)
    /\ pc' = "bands_dissolved"
    /\ UNCHANGED <<outcome, index, geodataframe, has_column, gdf_dissolve_sorted,
                   differenced_geoms, category_values, differenced_gdf, areasVars, nodesVars>>

\* Lines 255-261 on a table with no rows: without the column, line 255 raises
\* KeyError; with it, the loop runs zero times and pd.concat([]) on line 261
\* raises ValueError("No objects to concatenate").
BandsEmptyRaises ==
    /\ pc = "bands_start"
    /\ geodataframe = <<>>
    /\ outcome' = (IF has_column THEN "ValueError" ELSE "KeyError")
    /\ pc' = "raised"
    /\ UNCHANGED <<index, bandsVars, areasVars, nodesVars>>

\* Line 266.
BandsSort ==
    /\ pc = "bands_dissolved"
    /\ gdf_dissolve_sorted' = SortValues(gdf_dissolve)
    /\ index' = 0
    /\ pc' = "bands_difference"
    /\ UNCHANGED <<outcome, geodataframe, has_column, gdf_dissolve,
                   differenced_geoms, category_values, differenced_gdf, areasVars, nodesVars>>

\* One iteration of the loop of lines 267-270.
BandsDifferenceStep ==
    /\ pc = "bands_difference"
    /\ index < Len(gdf_dissolve_sorted) - 1
    /\ LET differenced_part ==
               Difference(gdf_dissolve_sorted[index + 1].geometry,
                          gdf_dissolve_sorted[index + 2].geometry)
       IN differenced_geoms' = Append(differenced_geoms, differenced_part)
    /\ category_values' = Append(category_values, gdf_dissolve_sorted[index + 1].distance)
    /\ index' = index + 1
    /\ UNCHANGED <<pc, outcome, geodataframe, has_column, gdf_dissolve,
                   gdf_dissolve_sorted, differenced_gdf, areasVars, nodesVars>>

\* Lines 273-277, after the loop: the smallest region is appended as it is
\* and the result table is built.
BandsReturn ==
    /\ pc = "bands_difference"
    /\ index >= Len(gdf_dissolve_sorted) - 1
    /\ LET final_index == Len(gdf_dissolve_sorted) - 1
           geoms == Append(differenced_geoms, gdf_dissolve_sorted[final_index + 1].geometry)
           cats == Append(category_values, gdf_dissolve_sorted[final_index + 1].distance)
       IN /\ differenced_geoms' = geoms
          /\ category_values' = cats
          /\ differenced_gdf' = [k \in 1..Len(geoms) |->
                                    [geometry |-> geoms[k], distance |-> cats[k]]]
    /\ pc' = "bands_done"
    /\ outcome' = "ok"
    /\ UNCHANGED <<index, geodataframe, has_column, gdf_dissolve, gdf_dissolve_sorted,
                   areasVars, nodesVars>>

BandsNext ==
    \/ BandsDissolve
    \/ BandsEmptyRaises
    \/ BandsSort
    \/ BandsDifferenceStep
    \/ BandsReturn

SpecBands == BandsInit /\ [][BandsNext]_vars

(***************************************************************************)
(* service_areas                                                           *)
(*                                                                         *)
(* The graph is a directed multigraph.  graph[<<v, u>>] is the bundle of   *)
(* parallel edges from v to u; an edge is given by its attribute dict,     *)
(* reduced to the attribute named by `weight`: {} when the edge lacks the  *)
(* attribute, {w} when it has value w.  An empty bundle is no edge.        *)
(***************************************************************************)
AllArcs == {a \in Nodes \X Nodes : a[1] # a[2]}

EdgeAttrs == {{}} \cup {{w} : w \in Weights}

\* A node id that is not in the graph.
MissingNode == 1 + CHOOSE n \in Nodes : \A m \in Nodes : m <= n

\* graph.nodes[node]['x'], graph.nodes[node]['y']
NodeXY(node) == IF node = 1 THEN <<0, 0>> ELSE IF node = 2 THEN <<2, 0>> ELSE <<2, 2>>

\* attr.get(weight, 1)
AttrGet(attr) == IF attr = {} THEN 1 ELSE CHOOSE w \in attr : TRUE

\* networkx's weight function of a multigraph:
\*   lambda u, v, d: min(attr.get(weight, 1) for attr in d.values())
Weight(G, v, u) == SetMin({AttrGet(attr) : attr \in G[<<v, u>>]})

\* G_succ[v], in ascending order of node id (the result of the search does
\* not depend on the order the neighbours are visited in).
RECURSIVE SortedSeq(_)
SortedSeq(S) == IF S = {} THEN <<>> ELSE <<SetMin(S)>> \o SortedSeq(S \ {SetMin(S)})

Successors(G, v) == SortedSeq({u \in Nodes : u # v /\ G[<<v, u>>] # {}})

\* `if vu_dist > cutoff: continue`
ExceedsCutoff_strict(vu_dist, cutoff) == vu_dist >= cutoff

ExceedsCutoff_inverted(vu_dist, cutoff) == vu_dist < cutoff

ExceedsCutoff(vu_dist, cutoff) == vu_dist > cutoff

\* The inner loop of _dijkstra_multisource: the edges out of v, just popped
\* at distance dist[v], are relaxed in turn.  st is the search state
\* [dist, seen, fringe, c, err]; the fringe holds <<distance, count, node>>.
RECURSIVE Relax(_, _, _, _, _)
Relax(G, cutoff, v, succ, st) ==
    IF succ = <<>> \/ st.err THEN st
    ELSE LET u == Head(succ)
             cost == Weight(G, v, u)
             vu_dist == st.dist[v] + cost
             next ==
                 IF ExceedsCutoff(vu_dist, cutoff) THEN st
                 ELSE IF u \in DOMAIN st.dist
                 THEN IF vu_dist < st.dist[u]
                      THEN [st EXCEPT !.err = TRUE]  \* "Contradictory paths found"
                      ELSE st
                 ELSE IF u \notin DOMAIN st.seen \/ vu_dist < st.seen[u]
                 THEN [st EXCEPT !.seen = DictSet(st.seen, u, vu_dist),
                                 !.fringe = st.fringe \cup {<<vu_dist, st.c, u>>},
                                 !.c = st.c + 1]
                 ELSE st
         IN Relax(G, cutoff, v, Tail(succ), next)

\* heappop: the least <<distance, count, node>>.
HeapTop(fringe) ==
    CHOOSE e \in fringe :
        \A f \in fringe : e[1] < f[1] \/ (e[1] = f[1] /\ e[2] <= f[2])

\* The outer loop of _dijkstra_multisource (`while fringe:`).
RECURSIVE DijkstraLoop(_, _, _)
DijkstraLoop(G, cutoff, st) ==
    IF st.fringe = {} \/ st.err THEN st
    ELSE LET top == HeapTop(st.fringe)
             d == top[1]
             v == top[3]
             popped == [st EXCEPT !.fringe = st.fringe \ {top}]
         IN IF v \in DOMAIN st.dist
            THEN DijkstraLoop(G, cutoff, popped)
            ELSE DijkstraLoop(G, cutoff,
                     Relax(G, cutoff, v, Successors(G, v),
                           [popped EXCEPT !.dist = DictSet(st.dist, v, d)]))

\* nx.single_source_dijkstra_path_length(graph, source, cutoff=cutoff,
\* weight=weight) for a source that is in the graph: the search state at the
\* end, whose dist is the dict returned.
Dijkstra(G, source, cutoff) ==
    DijkstraLoop(G, cutoff,
        [dist |-> <<>>, seen |-> DictSet(<<>>, source, 0),
         fringe |-> {<<0, 0, source>>}, c |-> 1, err |-> FALSE])

\* data_for_gdf.append(record)
AppendRecord_byName(data, record) ==
    LET keep == {k \in 1..Len(data) : data[k].name # record.name}
        kept == SortedSeq(keep)
    IN Append([k \in 1..Len(kept) |-> data[kept[k]]], record)

AppendRecord(data, record) == Append(data, record)

\* alphashape.alphashape(points, alpha): the hull is kept as the point list
\* it was built from.
AlphaShape(points) == [hull_of |-> points]

\* The line graph 1 - 2 - 3 with unit weights in both directions.
LineGraph ==
    [a \in AllArcs |-> IF a \in {<<1, 2>>, <<2, 1>>, <<2, 3>>, <<3, 2>>} THEN {{1}} ELSE {}]

\* Graphs with at most one edge per arc, and up to two parallel edges from
\* node 1 to node 2; the arc from 3 to 1 is never present.
Graphs ==
    {g \in [AllArcs -> {b \in SUBSET EdgeAttrs : Cardinality(b) <= 2}] :
        /\ g[<<3, 1>>] = {}
        /\ \A a \in AllArcs : a # <<1, 2>> => Cardinality(g[a]) <= 1}

\* Insertion-ordered dicts name -> {'nearest_node': node} of at most n items.
NodeDicts(n) ==
    {d \in SeqsUpTo([name : Names, nearest_node : Nodes \cup {MissingNode}], n) :
        \A i, j \in 1..Len(d) : i # j => d[i].name # d[j].name}

\* The variables of service_bands while another function runs.
BandsIdle ==
    /\ geodataframe = <<>>
    /\ has_column = TRUE
    /\ gdf_dissolve = <<>>
    /\ gdf_dissolve_sorted = <<>>
    /\ differenced_geoms = <<>>
    /\ category_values = <<>>
    /\ differenced_gdf = <<>>

AreasStart ==
    /\ pc = "areas_loop"
    /\ outcome = "running"
    /\ index = 0
    /\ distance_pos = 0
    /\ data_for_gdf = <<>>
    /\ subgraph_log = <<>>
    /\ gdf_alpha = <<>>
    /\ BandsIdle
    /\ NodesIdle

\* Any dict and any list of cutoffs, on the line graph.
AreasInit ==
    /\ AreasStart
    /\ graph = LineGraph
    /\ nearest_node_dict \in NodeDicts(MaxBindings)
    /\ search_distances \in SeqsUpTo(0..MaxCost, MaxCutoffs)

\* One location "A".  Bound to node 1: any graph, and every cutoff once,
\* ascending or descending.  On the line graph also: bound to any node or to
\* a node that is not in the graph, and lists of cutoffs with repeats or
\* none.
ReachInit ==
    /\ AreasStart
    /\ nearest_node_dict \in NodeDicts(1)
    /\ Len(nearest_node_dict) = 1
    /\ nearest_node_dict[1].name = "A"
    /\ \/ /\ graph \in Graphs
          /\ nearest_node_dict[1].nearest_node = 1
          /\ search_distances \in {[k \in 1..(MaxCost + 1) |-> k - 1],
                                   [k \in 1..(MaxCost + 1) |-> MaxCost + 1 - k]}
       \/ /\ graph = LineGraph
          /\ search_distances \in SeqsUpTo(0..MaxCost, MaxCutoffs)

\* One pass of the inner loop (lines 192-211) whose source is in the graph.
AreasPair ==
    /\ pc = "areas_loop"
    /\ index < Len(nearest_node_dict)
    /\ distance_pos < Len(search_distances)
    /\ LET name == nearest_node_dict[index + 1].name
           distance == search_distances[distance_pos + 1]
           nearest_node == nearest_node_dict[index + 1].nearest_node
           search == Dijkstra(graph, nearest_node, distance)
           subgraph == search.dist
           reachable_nodes == SortedSeq(DOMAIN subgraph)
           node_points_list ==
               [k \in 1..Len(reachable_nodes) |-> NodeXY(reachable_nodes[k])]
           alpha_shape == AlphaShape(node_points_list)
       IN /\ nearest_node \in Nodes
          /\ ~search.err
          /\ data_for_gdf' = AppendRecord(data_for_gdf,
                 [name |-> name, distance |-> distance, geometry |-> alpha_shape])
          /\ subgraph_log' = Append(subgraph_log, subgraph)
    /\ distance_pos' = distance_pos + 1
    /\ UNCHANGED <<pc, outcome, index, graph, nearest_node_dict, search_distances,
                   gdf_alpha, bandsVars, nodesVars>>

\* One pass of the inner loop whose source is not in the graph: line 195
\* raises nx.NodeNotFound, nothing catches it, and service_areas ends with it.
AreasPairRaises ==
    /\ pc = "areas_loop"
    /\ index < Len(nearest_node_dict)
    /\ distance_pos < Len(search_distances)
    /\ nearest_node_dict[index + 1].nearest_node \notin Nodes
    /\ pc' = "raised"
    /\ outcome' = "NodeNotFound"
    /\ UNCHANGED <<index, areasVars, bandsVars, nodesVars>>

\* The inner loop is exhausted: the outer loop of line 189 moves on.
AreasNextLocation ==
    /\ pc = "areas_loop"
    /\ index < Len(nearest_node_dict)
    /\ distance_pos = Len(search_distances)
    /\ index' = index + 1
    /\ distance_pos' = 0
    /\ UNCHANGED <<pc, outcome, graph, nearest_node_dict, search_distances,
                   data_for_gdf, subgraph_log, gdf_alpha, bandsVars, nodesVars>>

\* Lines 214-220: the table of the records.
AreasReturn ==
    /\ pc = "areas_loop"
    /\ index = Len(nearest_node_dict)
    /\ gdf_alpha' = data_for_gdf
    /\ pc' = "areas_done"
    /\ outcome' = "ok"
    /\ UNCHANGED <<index, graph, nearest_node_dict, search_distances, distance_pos,
                   data_for_gdf, subgraph_log, bandsVars, nodesVars>>

\* Line 214 with no records: gpd.GeoDataFrame([], crs=4326) has no geometry
\* column, and geopandas releases that refuse a CRS without one raise
\* ValueError (older ones return the empty table, as AreasReturn does).
AreasReturnEmptyRaises ==
    /\ pc = "areas_loop"
    /\ index = Len(nearest_node_dict)
    /\ data_for_gdf = <<>>
    /\ pc' = "raised"
    /\ outcome' = "ValueError"
    /\ UNCHANGED <<index, areasVars, bandsVars, nodesVars>>

AreasNext ==
    \/ AreasPair
    \/ AreasPairRaises
    \/ AreasNextLocation
    \/ AreasReturn
    \/ AreasReturnEmptyRaises

SpecAreas == AreasInit /\ [][AreasNext]_vars

SpecReach == ReachInit /\ [][AreasNext]_vars

(***************************************************************************)
(* nearest_node_and_name                                                   *)
(***************************************************************************)
\* Squared Euclidean distance from a node to the point (x, y).
Dist2(node, x, y) ==
    (NodeXY(node)[1] - x) * (NodeXY(node)[1] - x)
        + (NodeXY(node)[2] - y) * (NodeXY(node)[2] - y)

\* ox.distance.nearest_nodes(graph, x, y): the node nearest to the point; of
\* several equally near, the first in node order.
NearestNode(x, y) ==
    CHOOSE n \in Nodes :
        \A m \in Nodes :
            Dist2(n, x, y) < Dist2(m, x, y) \/ (Dist2(n, x, y) = Dist2(m, x, y) /\ n <= m)

\* f"location_{index}"
Placeholder(i) ==
    IF i = 0 THEN "location_0" ELSE IF i = 1 THEN "location_1" ELSE "location_2"

\* service_xy[name] = {'nearest_node': nearest_node}
SetBinding_firstWins(d, name, nearest_node) ==
    IF name \in DOMAIN d THEN d ELSE DictSet(d, name, [nearest_node |-> nearest_node])

SetBinding(d, name, nearest_node) == DictSet(d, name, [nearest_node |-> nearest_node])

\* A table with a name column and the default index 0..n-1 (the labels are
\* not read when a name column is passed), passed with its name column; or a
\* table with any index labels, repeated ones too, passed with no name column.
NodesInit ==
    /\ pc = "nodes_start"
    /\ outcome = "running"
    /\ index = 0
    /\ rows_done = 0
    /\ \/ /\ location_name_arg = "name"
          /\ \E rows \in SeqsUpTo([name : LocationNames, geometry : Points], MaxLocations) :
                 locations = [i \in 1..Len(rows) |->
                                 [index |-> i - 1, name |-> rows[i].name,
                                  geometry |-> rows[i].geometry]]
       \/ /\ location_name_arg = None
          /\ locations \in SeqsUpTo([index : IndexLabels, geometry : Points], MaxLocations)
    /\ location_name = location_name_arg
    /\ anon_name \in BOOLEAN
    /\ service_xy = <<>>
    /\ BandsIdle
    /\ AreasIdle

\* Lines 127-135: fake names are drawn, stored in a new column, and that
\* column becomes the name column.
NodesFakeNames ==
    /\ pc = "nodes_start"
    /\ location_name = None /\ anon_name
    /\ \E fake_names \in [1..Len(locations) -> Cities] :
           locations' = [i \in 1..Len(locations) |->
                            DictSet(locations[i], "Fake Name", fake_names[i])]
    /\ location_name' = "Fake Name"
    /\ pc' = "nodes_loop"
    /\ UNCHANGED <<outcome, index, location_name_arg, anon_name, rows_done, service_xy,
                   bandsVars, areasVars>>

\* Line 127 when its condition is false.
NodesNoFakeNames ==
    /\ pc = "nodes_start"
    /\ ~(location_name = None /\ anon_name)
    /\ pc' = "nodes_loop"
    /\ UNCHANGED <<outcome, index, nodesVars, bandsVars, areasVars>>

\* One pass of the loop of lines 138-150: iterrows() yields the next row with
\* its index label, which is what `index` holds.
NodesRow ==
    /\ pc = "nodes_loop"
    /\ rows_done < Len(locations)
    /\ LET row == locations[rows_done + 1]
           label == row["index"]
           location_x == row["geometry"][1]
           location_y == row["geometry"][2]
           nearest_node == NearestNode(location_x, location_y)
           name == IF location_name # None THEN row[location_name]
                   ELSE Placeholder(label)
       IN /\ service_xy' = SetBinding(service_xy, name, nearest_node)
          /\ index' = label
    /\ rows_done' = rows_done + 1
    /\ UNCHANGED <<pc, outcome, locations, location_name_arg, location_name, anon_name,
                   bandsVars, areasVars>>

\* Line 152.
NodesReturn ==
    /\ pc = "nodes_loop"
    /\ rows_done = Len(locations)
    /\ pc' = "nodes_done"
    /\ outcome' = "ok"
    /\ UNCHANGED <<index, nodesVars, bandsVars, areasVars>>

NodesNext ==
    \/ NodesFakeNames
    \/ NodesNoFakeNames
    \/ NodesRow
    \/ NodesReturn

SpecNodes == NodesInit /\ [][NodesNext]_vars

(***************************************************************************)
(* Properties of service_bands.  The regions are described from the input  *)
(* table alone, not from what the function computed on the way.            *)
(***************************************************************************)
InputDistances == {geodataframe[i].distance : i \in 1..Len(geodataframe)}

\* The dissolved region of a distance: the union of all input polygons with it.
Region(d) ==
    UNION {geodataframe[i].geometry :
              i \in {j \in 1..Len(geodataframe) : geodataframe[j].distance = d}}

\* The k-th largest distance of the input (k = 1 is the largest).
KthLargest(k) ==
    CHOOSE d \in InputDistances : Cardinality({e \in InputDistances : e > d}) = k - 1

NumBands == Len(differenced_gdf)

BandsDone == pc = "bands_done"

\* The dissolved regions shrink with the distance.
RegionsNested ==
    \A d1, d2 \in InputDistances : d1 < d2 => Region(d1) \subseteq Region(d2)

BandsPairwiseDisjoint ==
    \A i, j \in 1..NumBands :
        i # j => differenced_gdf[i].geometry \cap differenced_gdf[j].geometry = {}

\* C1 as stated: for any table, regions nested or not, no two returned bands
\* overlap.
C1_NoOverlapAnyTable == BandsDone => BandsPairwiseDisjoint

\* C1 amended: when the dissolved regions are nested (the region of every
\* distance contains the region of every smaller distance), no two returned
\* bands overlap; bands next to each other in the result never overlap.
C1_NoOverlapWhenNested ==
    BandsDone =>
        /\ RegionsNested => BandsPairwiseDisjoint
        /\ \A i \in 1..(NumBands - 1) :
               differenced_gdf[i].geometry \cap differenced_gdf[i + 1].geometry = {}

\* Three nested regions, the subtraction removed area, two bands have area.
C1_Witness ==
    /\ BandsDone
    /\ NumBands = 3
    /\ RegionsNested
    /\ Region(KthLargest(1)) \cap Region(KthLargest(2)) # {}
    /\ differenced_gdf[1].geometry # {}
    /\ differenced_gdf[3].geometry # {}

\* C2: for a non-empty table the union of the returned band geometries is the
\* union of the dissolved regions, which is the union of the input polygons.
C2_UnionPreserved ==
    (BandsDone /\ geodataframe # <<>>) =>
        /\ UNION {differenced_gdf[i].geometry : i \in 1..NumBands}
             = UNION {geodataframe[i].geometry : i \in 1..Len(geodataframe)}
        /\ UNION {differenced_gdf[i].geometry : i \in 1..NumBands}
             = UNION {Region(d) : d \in InputDistances}

\* Regions that are not nested, a subtraction that removed area, and input
\* polygons that cover every cell.
C2_Witness ==
    /\ BandsDone
    /\ NumBands >= 2
    /\ ~RegionsNested
    /\ \E i \in 1..(NumBands - 1) :
           differenced_gdf[i].geometry # Region(differenced_gdf[i].distance)
    /\ UNION {geodataframe[i].geometry : i \in 1..Len(geodataframe)} = Cells

\* C3: with the regions sorted by distance descending, the band at position
\* i < n is region[i] minus region[i+1] only, and the last band, of the
\* smallest distance, is its dissolved region unmodified.
C3_BandIsRegionMinusNext ==
    BandsDone =>
        \A k \in 1..NumBands :
            /\ differenced_gdf[k].distance = KthLargest(k)
            /\ differenced_gdf[k].geometry =
                   IF k < NumBands
                   THEN Region(KthLargest(k)) \ Region(KthLargest(k + 1))
                   ELSE Region(KthLargest(k))

\* Three bands; the first lost area to the second region and keeps a cell
\* that is also in the third region (only the next region is subtracted).
C3_Witness ==
    /\ BandsDone
    /\ NumBands = 3
    /\ differenced_gdf[1].geometry # Region(KthLargest(1))
    /\ differenced_gdf[1].geometry \cap Region(KthLargest(3)) # {}

StrictlyDescending ==
    \A k \in 1..(NumBands - 1) :
        differenced_gdf[k].distance > differenced_gdf[k + 1].distance

\* C4: a non-empty table, in any row order and with any number of rows per
\* distance, never raises and yields one band per distinct distance, in
\* strictly descending order of distance; a single distinct distance yields
\* one band, equal to that distance's dissolved region.
C4_OneBandPerDistanceDescending ==
    /\ geodataframe # <<>> => pc # "raised"
    /\ BandsDone =>
          /\ NumBands = Cardinality(InputDistances)
          /\ {differenced_gdf[k].distance : k \in 1..NumBands} = InputDistances
          /\ StrictlyDescending
          /\ Cardinality(InputDistances) = 1 =>
                /\ NumBands = 1
                /\ differenced_gdf[1].geometry = Region(differenced_gdf[1].distance)

\* Rows given in ascending order, with a distance that occurs twice.
C4_Witness ==
    /\ BandsDone
    /\ Len(geodataframe) = 3
    /\ geodataframe[1].distance < geodataframe[2].distance
    /\ geodataframe[3].distance = geodataframe[1].distance
    /\ NumBands = 2

\* C5: a table with zero records makes service_bands fail with the EmptyInput
\* error, a structured error and not a generic crash, and no bands are
\* returned.
C5_EmptyInputError ==
    (geodataframe = <<>> /\ pc \in {"bands_done", "raised"}) =>
        /\ outcome = "EmptyInput"
        /\ differenced_gdf = <<>>

(***************************************************************************)
(* Properties of service_areas.  Shortest-path costs are described by      *)
(* Bellman-Ford rounds over the edge weights, not by the search.           *)
(***************************************************************************)
\* Larger than any cutoff and than the cost of any path without a repeated
\* node.
Unreachable ==
    LET heaviest == CHOOSE w \in Weights \cup {1} : \A x \in Weights \cup {1} : x <= w
    IN Cardinality(Nodes) * heaviest + MaxCost + 1

\* One round: every node takes the cheapest of its cost and the cost of
\* coming over one edge from another node.
BellmanFordRound(G, cost) ==
    [n \in Nodes |->
        SetMin({cost[n]} \cup
               {cost[m] + Weight(G, m, n) :
                   m \in {x \in Nodes : x # n /\ G[<<x, n>>] # {} /\ cost[x] < Unreachable}})]

RECURSIVE BellmanFord(_, _, _)
BellmanFord(G, cost, rounds) ==
    IF rounds = 0 THEN cost ELSE BellmanFord(G, BellmanFordRound(G, cost), rounds - 1)

\* The shortest-path cost of every node from source (Unreachable if none).
ShortestCost(G, source) ==
    BellmanFord(G, [n \in Nodes |-> IF n = source THEN 0 ELSE Unreachable],
                Cardinality(Nodes) - 1)

\* The node a location name is bound to.
NodeOf(name) ==
    LET i == CHOOSE k \in 1..Len(nearest_node_dict) : nearest_node_dict[k].name = name
    IN nearest_node_dict[i].nearest_node

NumRecords == Len(data_for_gdf)

Isolated(G, v) == \A u \in Nodes \ {v} : G[<<v, u>>] = {}

\* C6: the reachable set computed for a (location, distance) pair is exactly
\* the set of nodes whose shortest-path cost from the source is <= cutoff,
\* each with that cost; the source is in it at cost 0, alone when it is
\* isolated.
C6_ReachableSetExact ==
    \A k \in 1..NumRecords :
        LET source == NodeOf(data_for_gdf[k].name)
            cutoff == data_for_gdf[k].distance
            subgraph == subgraph_log[k]
            cost == ShortestCost(graph, source)
        IN /\ DOMAIN subgraph = {n \in Nodes : cost[n] <= cutoff}
           /\ \A n \in DOMAIN subgraph : subgraph[n] = cost[n]
           /\ source \in DOMAIN subgraph
           /\ subgraph[source] = 0
           /\ Isolated(graph, source) => DOMAIN subgraph = {source}

\* A record whose reachable set has a node at cost equal to the cutoff and
\* leaves out a node that costs more, and a record that holds a node cheaper
\* by two edges than by the edge straight from the source.
C6_Witness ==
    /\ \E k \in 1..NumRecords :
           LET source == NodeOf(data_for_gdf[k].name)
               cutoff == data_for_gdf[k].distance
               subgraph == subgraph_log[k]
               cost == ShortestCost(graph, source)
           IN /\ \E n \in DOMAIN subgraph : n # source /\ subgraph[n] = cutoff
              /\ \E n \in Nodes : /\ cutoff < cost[n]
                                   /\ cost[n] < Unreachable
                                   /\ n \notin DOMAIN subgraph
    /\ \E k \in 1..NumRecords :
           LET source == NodeOf(data_for_gdf[k].name)
               subgraph == subgraph_log[k]
           IN \E n \in DOMAIN subgraph :
                  /\ n # source
                  /\ graph[<<source, n>>] # {}
                  /\ subgraph[n] < Weight(graph, source, n)

\* C7: for the same source, the node set reachable within a cutoff is a
\* subset of the node set reachable within any larger cutoff.
C7_MonotonicInCutoff ==
    \A k1, k2 \in 1..NumRecords :
        (/\ data_for_gdf[k1].name = data_for_gdf[k2].name
         /\ data_for_gdf[k1].distance < data_for_gdf[k2].distance)
            => DOMAIN subgraph_log[k1] \subseteq DOMAIN subgraph_log[k2]

\* Three cutoffs from one source, each reaching strictly more nodes.
C7_Witness ==
    /\ NumRecords = 3
    /\ \A k1, k2 \in 1..NumRecords :
           data_for_gdf[k1].distance < data_for_gdf[k2].distance
               => /\ DOMAIN subgraph_log[k1] \subseteq DOMAIN subgraph_log[k2]
                  /\ DOMAIN subgraph_log[k1] # DOMAIN subgraph_log[k2]

AreasDone == pc = "areas_done"

DictNames == {nearest_node_dict[i].name : i \in 1..Len(nearest_node_dict)}

\* How many returned records carry this name and this distance.
RecordCount(name, d) ==
    Cardinality({k \in 1..Len(gdf_alpha) :
                    gdf_alpha[k].name = name /\ gdf_alpha[k].distance = d})

\* C8 as stated: for any dict and any list of distances, the returned table
\* holds exactly one record per (location, distance) pair.
C8_OneRecordPerPair ==
    AreasDone =>
        /\ \A k \in 1..Len(gdf_alpha) :
               /\ gdf_alpha[k].name \in DictNames
               /\ gdf_alpha[k].distance \in Range(search_distances)
        /\ \A name \in DictNames : \A d \in Range(search_distances) :
               RecordCount(name, d) = 1

\* C8 amended: the returned table holds one record per location and position
\* of the list of distances: for each location no requested distance is
\* missing, and a (location, distance) record occurs as many times as the
\* distance occurs in the list, so once when the distances are distinct.
C8_OneRecordPerListPosition ==
    AreasDone =>
        /\ Len(gdf_alpha) = Len(nearest_node_dict) * Len(search_distances)
        /\ \A k \in 1..Len(gdf_alpha) :
               /\ gdf_alpha[k].name \in DictNames
               /\ gdf_alpha[k].distance \in Range(search_distances)
        /\ \A name \in DictNames : \A d \in Range(search_distances) :
               RecordCount(name, d) =
                   Cardinality({j \in 1..Len(search_distances) : search_distances[j] = d})

\* Two locations and two different distances: four records.
C8_Witness ==
    /\ AreasDone
    /\ Len(nearest_node_dict) = 2
    /\ Len(search_distances) = 2
    /\ search_distances[1] # search_distances[2]
    /\ Len(gdf_alpha) = 4

\* The (location, distance) pairs whose search cannot fail.
GoodPairs ==
    {p \in (1..Len(nearest_node_dict)) \X (1..Len(search_distances)) :
        nearest_node_dict[p[1]].nearest_node \in Nodes}

\* C9: a failure for one (location, distance) pair, such as a bound node that
\* is not in the graph, never aborts the batch: the call does not end with
\* that pair's exception, and the records of all other pairs are returned.
C9_FailureIsolated ==
    /\ outcome # "NodeNotFound"
    /\ AreasDone =>
          \A p \in GoodPairs :
              \E k \in 1..Len(gdf_alpha) :
                  /\ gdf_alpha[k].name = nearest_node_dict[p[1]].name
                  /\ gdf_alpha[k].distance = search_distances[p[2]]

(***************************************************************************)
(* Properties of nearest_node_and_name.                                    *)
(***************************************************************************)
NodesDone == pc = "nodes_done"

NumLocations == Len(locations)

\* The name the row at position i carries in the column location_name.
NameAt(i) == locations[i][location_name]

LabelAt(i) == locations[i]["index"]

NearestOfRow(i) == NearestNode(locations[i]["geometry"][1], locations[i]["geometry"][2])

\* The position of the last row for which Key gives this key.
LastAt(Key(_), key) ==
    CHOOSE i \in 1..NumLocations :
        /\ Key(i) = key
        /\ \A j \in 1..NumLocations : Key(j) = key => j <= i

\* One binding per distinct key, that of the last row with the key.
LastWins(Key(_)) ==
    /\ DOMAIN service_xy = {Key(i) : i \in 1..NumLocations}
    /\ \A key \in DOMAIN service_xy :
           service_xy[key].nearest_node = NearestOfRow(LastAt(Key, key))

PlaceholderAt(i) == Placeholder(LabelAt(i))

\* Every location has its own binding, under location_<index>.
OwnPlaceholderBindings ==
    /\ DOMAIN service_xy = {PlaceholderAt(i) : i \in 1..NumLocations}
    /\ Cardinality(DOMAIN service_xy) = NumLocations
    /\ \A i \in 1..NumLocations :
           service_xy[PlaceholderAt(i)].nearest_node = NearestOfRow(i)

\* C10 as stated: when a name column is passed the mapping has one binding
\* per distinct name, that of the last location carrying the name; when no
\* name column is passed every location has its own binding, under the
\* placeholder name location_<index>.
C10_LastWinsOrOwnPlaceholder ==
    NodesDone =>
        IF location_name_arg # None THEN LastWins(NameAt) ELSE OwnPlaceholderBindings

\* C10 amended: when a name column is passed the mapping has one binding per
\* distinct name, that of the last location carrying the name.  When none is
\* passed and anon_name is not set, every location is bound under
\* location_<index label>: one binding per distinct label, that of the last
\* location with the label, so every location has its own binding when the
\* labels are distinct.  When none is passed and anon_name is set, the
\* locations are bound under the fake names drawn, last-wins, and no
\* placeholder is used.
C10_LastWinsPerNameLabelOrFakeName ==
    NodesDone =>
        IF location_name_arg # None THEN LastWins(NameAt)
        ELSE IF ~anon_name
        THEN /\ LastWins(PlaceholderAt)
             /\ (\A i, j \in 1..NumLocations : i # j => LabelAt(i) # LabelAt(j))
                    => OwnPlaceholderBindings
        ELSE /\ location_name = "Fake Name"
             /\ LastWins(NameAt)

\* No name column and no fake names; three locations, the first and the last
\* with the same index label and different nearest nodes, the second with
\* another label: two bindings, the shared one that of the last location.
C10_Witness ==
    /\ NodesDone
    /\ location_name_arg = None
    /\ ~anon_name
    /\ NumLocations = 3
    /\ LabelAt(1) = LabelAt(3)
    /\ LabelAt(2) # LabelAt(1)
    /\ NearestOfRow(1) # NearestOfRow(3)
    /\ Cardinality(DOMAIN service_xy) = 2
    /\ service_xy[PlaceholderAt(1)].nearest_node = NearestOfRow(3)

====
